---- MODULE Spec2Model ----
(***************************************************************************)
(* A model of nerfstudio/model_components/losses.py.                       *)
(*                                                                         *)
(* The losses are functions of tensors.  A call is modelled as a record   *)
(* `call` holding the function's name and its arguments, `ret` as what the *)
(* call returned or raised, `frame` as the locals of a function that is    *)
(* followed statement by statement, and `gan` / `ssi` as the fields of a   *)
(* GANLoss / ScaleAndShiftInvariantLoss object.  A tensor with one batch   *)
(* row is a sequence; a batch is a sequence of rows.                       *)
(*                                                                         *)
(* Arithmetic is exact: a real number is a normalised fraction             *)
(* [n |-> numerator, d |-> denominator > 0].  Floating-point rounding is   *)
(* not modelled.  log, exp and softplus are tabulated to two decimals on   *)
(* the arguments the model draws.                                          *)
(***************************************************************************)
EXTENDS Integers, Sequences, FiniteSets, TLC

VARIABLES pc, call, ret, frame, gan, ssi

vars == <<pc, call, ret, frame, gan, ssi>>

(***************************************************************************)
(* Bounds of the model.                                                    *)
(***************************************************************************)
\* most samples (bins) of one ray in a histogram handed to outer
MaxSamples == 2
\* largest bin edge of such a histogram (edges are 0..MaxEdge)
MaxEdge == 3
\* largest weight of one bin of such a histogram
MaxWeight == 2

(***************************************************************************)
(* What a call returned.                                                   *)
(***************************************************************************)
NoRet == [kind |-> "none"]

Return(v) == [kind |-> "return", val |-> v]

Raise(e, m) == [kind |-> "raise", exc |-> e, msg |-> m]

NoObject == [class |-> "none"]

NoFrame == [fn |-> "none"]

(***************************************************************************)
(* Exact rational arithmetic.                                              *)
(***************************************************************************)
Abs(x) == IF x < 0 THEN -x ELSE x

RECURSIVE GCD(_, _)
GCD(a, b) == IF b = 0 THEN a ELSE GCD(b, a % b)

Rat(n, d) ==
    LET g == GCD(Abs(n), d)
    IN  [n |-> n \div g, d |-> d \div g]

RInt(i) == [n |-> i, d |-> 1]

RZero == RInt(0)

RAdd(a, b) ==
    LET g == GCD(a.d, b.d)
        l == (a.d \div g) * b.d
    IN  Rat(a.n * (l \div a.d) + b.n * (l \div b.d), l)

RNeg(a) == [n |-> -a.n, d |-> a.d]

RSub(a, b) == RAdd(a, RNeg(b))

RMul(a, b) ==
    LET g1 == GCD(Abs(a.n), b.d)
        g2 == GCD(Abs(b.n), a.d)
    IN  Rat((a.n \div g1) * (b.n \div g2), (a.d \div g2) * (b.d \div g1))

RDivInt(a, k) == RMul(a, Rat(1, k))

RAbs(a) == [n |-> Abs(a.n), d |-> a.d]

RLess(a, b) == a.n * b.d < b.n * a.d

RLeq(a, b) == a.n * b.d <= b.n * a.d

RECURSIVE RSum(_)
RSum(s) == IF s = <<>> THEN RZero ELSE RAdd(Head(s), RSum(Tail(s)))

(***************************************************************************)
(* Tensor helpers on sequences of integers.                                *)
(***************************************************************************)
RECURSIVE SumSeq(_)
SumSeq(s) == IF s = <<>> THEN 0 ELSE Head(s) + SumSeq(Tail(s))

\* s[..., :-1]
Front(s) == SubSeq(s, 1, Len(s) - 1)

\* torch.cumsum(s, dim=-1)
cumsum(s) == [i \in 1..Len(s) |-> SumSeq(SubSeq(s, 1, i))]

\* torch.clamp(x, min=lo, max=hi): min is applied first, then max
clamp(x, lo, hi) ==
    LET a == IF x < lo THEN lo ELSE x
    IN  IF a > hi THEN hi ELSE a

\* torch.searchsorted(sorted, v, side="right") for one value: the index i with
\* sorted[i-1] <= v < sorted[i], i.e. how many elements are <= v
searchsorted_right(sorted, v) == Cardinality({i \in 1..Len(sorted) : sorted[i] <= v})

(***************************************************************************)
(* outer, losses.py 49-78.  Indices are the code's 0-based indices; a      *)
(* 0-based index k into a tensor is element k + 1 of the sequence.         *)
(***************************************************************************)
outer_cy1(y1) == <<0>> \o cumsum(y1)

\* a bug: the "- 1" that turns the insertion point into a bin index is lost
outer_idx_lo_no_minus_one(t0_starts, t1_starts, y1, i) ==
    clamp(searchsorted_right(t1_starts, t0_starts[i]), 0, Len(y1) - 1)

outer_idx_lo(t0_starts, t1_starts, y1, i) ==
    clamp(searchsorted_right(t1_starts, t0_starts[i]) - 1, 0, Len(y1) - 1)

\* a bug: the insertion point among the ends is turned into a bin index as well
outer_idx_hi_minus_one(t0_ends, t1_ends, y1, i) ==
    clamp(searchsorted_right(t1_ends, t0_ends[i]) - 1, 0, Len(y1) - 1)

outer_idx_hi(t0_ends, t1_ends, y1, i) ==
    clamp(searchsorted_right(t1_ends, t0_ends[i]), 0, Len(y1) - 1)

outer(t0_starts, t0_ends, t1_starts, t1_ends, y1) ==
    LET cy1 == outer_cy1(y1)
        cy1_lo(i) == Front(cy1)[outer_idx_lo(t0_starts, t1_starts, y1, i) + 1]
        cy1_hi(i) == Tail(cy1)[outer_idx_hi(t0_ends, t1_ends, y1, i) + 1]
    IN  [i \in 1..Len(t0_starts) |-> cy1_hi(i) - cy1_lo(i)]

(***************************************************************************)
(* lossfun_outer, losses.py 81-98.  One element of the result is the real  *)
(* number num / (w + EPS), kept as the pair [num, w]: EPS = 1.0e-7 stays   *)
(* symbolic, so the value is exact.                                        *)
(***************************************************************************)
\* a bug: the difference is not clipped
clip_none(x) == x

\* torch.clip(x, min=0)
clip_min0(x) == IF x < 0 THEN 0 ELSE x

lossfun_outer(t, w, t_env, w_env) ==
    LET w_outer == outer(Front(t), Tail(t), Front(t_env), Tail(t_env), w_env)
    IN  [i \in 1..Len(w) |->
            [num |-> clip_min0(w[i] - w_outer[i]) * clip_min0(w[i] - w_outer[i]),
             w |-> w[i]]]

(***************************************************************************)
(* Inputs: histograms.  The edges of a ray are non-decreasing (the         *)
(* samplers emit sorted bins); weights are non-negative.                   *)
(***************************************************************************)
EdgeVectors(n) ==
    {t \in [1..(n + 1) -> 0..MaxEdge] : \A i \in 1..n : t[i] <= t[i + 1]}

WeightVectors(n) == [1..n -> 0..MaxWeight]

\* a call of outer on the bins of the edge vectors t0 and t1
OuterCall(t0, t1, y1) ==
    [fn |-> "outer",
     t0_starts |-> Front(t0), t0_ends |-> Tail(t0),
     t1_starts |-> Front(t1), t1_ends |-> Tail(t1), y1 |-> y1]

\* a call of lossfun_outer of a histogram against itself
LossfunOuterCall(t, w) ==
    [fn |-> "lossfun_outer", t |-> t, w |-> w, t_env |-> t, w_env |-> w]

(***************************************************************************)
(* The interval resampling engine: one call of outer or lossfun_outer.     *)
(***************************************************************************)
InitOuter ==
    /\ pc = "called"
    /\ \E n1 \in 1..MaxSamples : \E t1 \in EdgeVectors(n1), y1 \in WeightVectors(n1) :
          \/ \E n0 \in 1..MaxSamples : \E t0 \in EdgeVectors(n0) :
                 call = OuterCall(t0, t1, y1)
          \/ call = LossfunOuterCall(t1, y1)
    /\ ret = NoRet
    /\ frame = NoFrame
    /\ gan = NoObject
    /\ ssi = NoObject

\* outer, lines 68-78; frame keeps the gather indices idx_lo and idx_hi
Outer ==
    /\ pc = "called"
    /\ call.fn = "outer"
    /\ ret' = Return(outer(call.t0_starts, call.t0_ends,
                           call.t1_starts, call.t1_ends, call.y1))
    /\ frame' = [fn |-> "outer",
                 idx_lo |-> [i \in 1..Len(call.t0_starts) |->
                                outer_idx_lo(call.t0_starts, call.t1_starts, call.y1, i)],
                 idx_hi |-> [i \in 1..Len(call.t0_ends) |->
                                outer_idx_hi(call.t0_ends, call.t1_ends, call.y1, i)]]
    /\ pc' = "returned"
    /\ UNCHANGED <<call, gan, ssi>>

LossfunOuter ==
    /\ pc = "called"
    /\ call.fn = "lossfun_outer"
    /\ ret' = Return(lossfun_outer(call.t, call.w, call.t_env, call.w_env))
    /\ pc' = "returned"
    /\ UNCHANGED <<call, frame, gan, ssi>>

NextOuter == Outer \/ LossfunOuter

SpecOuter == InitOuter /\ [][NextOuter]_vars

(***************************************************************************)
(* Optional tensors: an argument is None or a tensor.                      *)
(***************************************************************************)
None == [is_tensor |-> FALSE]

Tensor(v) == [is_tensor |-> TRUE, val |-> v]

\* torch.is_tensor(x)
is_tensor(x) == x.is_tensor

\* x is not None
is_not_None(x) == x # None

(***************************************************************************)
(* The distortion losses, losses.py 101-188, on one ray.  The trailing     *)
(* dimension of size 1 of weights, spacing_starts, spacing_ends is dropped.*)
(***************************************************************************)
ray_samples_to_sdist(ray_samples) ==
    LET starts == ray_samples.spacing_starts.val
        ends == ray_samples.spacing_ends.val
    IN  starts \o <<ends[Len(ends)]>>

\* a bug: the self-term is halved instead of divided by 3
lossfun_distortion_intra_half(t, w) ==
    RDivInt(RInt(SumSeq([i \in 1..Len(w) |-> w[i] * w[i] * (t[i + 1] - t[i])])), 2)

lossfun_distortion_intra(t, w) ==
    RDivInt(RInt(SumSeq([i \in 1..Len(w) |-> w[i] * w[i] * (t[i + 1] - t[i])])), 3)

lossfun_distortion(t, w) ==
    LET n == Len(w)
        ut == [i \in 1..n |-> Rat(t[i + 1] + t[i], 2)]
        dut(i, j) == RAbs(RSub(ut[i], ut[j]))
        inner(i) == RSum([j \in 1..n |-> RMul(RInt(w[j]), dut(i, j))])
        loss_inter == RSum([i \in 1..n |-> RMul(RInt(w[i]), inner(i))])
    IN  RAdd(loss_inter, lossfun_distortion_intra(t, w))

\* a bug: the batch is summed, not averaged
mean_is_sum(rows) == RSum(rows)

\* torch.mean over a batch of rows
mean(rows) == RDivInt(RSum(rows), Len(rows))

\* weights_list, ray_samples_list: one entry per level, each a single ray
distortion_loss(weights_list, ray_samples_list) ==
    LET c == ray_samples_to_sdist(ray_samples_list[Len(ray_samples_list)])
        w == weights_list[Len(weights_list)]
    IN  mean(<<lossfun_distortion(c, w)>>)

midpoint(start, end) == Rat(start + end, 2)

\* lines 176-188, once weights is a tensor
nerfstudio_distortion_value(starts, ends, weights) ==
    LET n == Len(weights)
        midpoints == [i \in 1..n |-> midpoint(starts[i], ends[i])]
        pair(i, j) == RMul(RInt(weights[i] * weights[j]),
                           RAbs(RSub(midpoints[i], midpoints[j])))
        loss == RSum([i \in 1..n |-> RSum([j \in 1..n |-> pair(i, j)])])
        self == RInt(SumSeq([i \in 1..n |-> weights[i] * weights[i] * (ends[i] - starts[i])]))
    IN  RAdd(loss, RMul(Rat(1, 3), self))

\* get_weights_result: what ray_samples.get_weights(densities) returns (rays.py,
\* outside these files): some tensor of weights
nerfstudio_distortion_loss(ray_samples, densities, weights, get_weights_result) ==
    IF is_tensor(densities) /\ is_tensor(weights)
    THEN Raise("AssertionError", "Cannot use both densities and weights")
    ELSE LET weights1 == IF is_tensor(densities) THEN get_weights_result ELSE weights
         IN  IF is_tensor(weights1) /\ is_tensor(densities)
             THEN Raise("AssertionError", "Cannot use both densities and weights")
             ELSE IF ~(is_not_None(ray_samples.spacing_starts)
                       /\ is_not_None(ray_samples.spacing_ends))
             THEN Raise("AssertionError", "Ray samples must have spacing starts and ends")
             ELSE IF ~is_tensor(weights1)
             THEN Raise("TypeError", "NoneType")
             ELSE Return(nerfstudio_distortion_value(ray_samples.spacing_starts.val,
                                                     ray_samples.spacing_ends.val,
                                                     weights1.val))

\* what ray_samples.get_weights(densities) can return: some weights, one per sample
\* (nothing when densities is None and the method is not called)
GetWeightsResults(densities) ==
    IF is_tensor(densities)
    THEN {Tensor(w) : w \in WeightVectors(Len(densities.val))}
    ELSE {None}

\* RaySamples of one ray: the bins of an edge vector, or no spacing at all
RaySamplesOf(t) == [spacing_starts |-> Tensor(Front(t)), spacing_ends |-> Tensor(Tail(t))]

RaySamplesNoSpacing == [spacing_starts |-> None, spacing_ends |-> None]

OptionalTensors(S) == {None} \cup {Tensor(v) : v \in S}

DensityVectors(n) == [1..n -> {0, 1}]

NerfstudioDistortionCall(rs, d, w) ==
    [fn |-> "nerfstudio_distortion_loss", ray_samples |-> rs, densities |-> d, weights |-> w]

DistortionLossCall(t, w) ==
    [fn |-> "distortion_loss", weights_list |-> <<w>>, ray_samples_list |-> <<RaySamplesOf(t)>>]

InitDistortion ==
    /\ pc = "called"
    /\ \E n \in 1..MaxSamples :
          \/ \E rs \in {RaySamplesOf(t) : t \in EdgeVectors(n)} \cup {RaySamplesNoSpacing},
                d \in OptionalTensors(DensityVectors(n)),
                w \in OptionalTensors(WeightVectors(n)) :
                 call = NerfstudioDistortionCall(rs, d, w)
          \/ \E t \in EdgeVectors(n), w \in WeightVectors(n) :
                 call = DistortionLossCall(t, w)
    /\ ret = NoRet
    /\ frame = NoFrame
    /\ gan = NoObject
    /\ ssi = NoObject

NerfstudioDistortionLoss ==
    /\ pc = "called"
    /\ call.fn = "nerfstudio_distortion_loss"
    /\ \E gw \in GetWeightsResults(call.densities) :
           ret' = nerfstudio_distortion_loss(call.ray_samples, call.densities,
                                             call.weights, gw)
    /\ pc' = "returned"
    /\ UNCHANGED <<call, frame, gan, ssi>>

DistortionLoss ==
    /\ pc = "called"
    /\ call.fn = "distortion_loss"
    /\ ret' = Return(distortion_loss(call.weights_list, call.ray_samples_list))
    /\ pc' = "returned"
    /\ UNCHANGED <<call, frame, gan, ssi>>

NextDistortion == NerfstudioDistortionLoss \/ DistortionLoss

SpecDistortion == InitDistortion /\ [][NextDistortion]_vars

(***************************************************************************)
(* Sums of lossfun_outer elements.  An element is num / (w + EPS); a sum   *)
(* of such elements, each scaled by a fraction, is kept exactly as the set *)
(* of [w, coef] with coef # 0, one per w, and stands for                   *)
(* the sum over the set of coef / (w + EPS).                               *)
(***************************************************************************)
EpsZero == {}

EpsCoef(a, w) ==
    IF \E p \in a : p.w = w THEN (CHOOSE p \in a : p.w = w).coef ELSE RZero

EpsNonZero(a) == {p \in a : p.coef # RZero}

EpsAdd(a, b) ==
    EpsNonZero({[w |-> w, coef |-> RAdd(EpsCoef(a, w), EpsCoef(b, w))] :
                   w \in {p.w : p \in a \cup b}})

\* torch.mean of the elements of one lossfun_outer result
EpsMean(elems) ==
    LET n == Len(elems)
        total(w) == SumSeq([i \in 1..n |-> IF elems[i].w = w THEN elems[i].num ELSE 0])
    IN  EpsNonZero({[w |-> w, coef |-> Rat(total(w), n)] :
                       w \in {elems[i].w : i \in 1..n}})

(***************************************************************************)
(* interlevel_loss, losses.py 109-123, followed statement by statement.    *)
(* Each level is one ray; frame.k counts the pairs the for loop has taken  *)
(* from zip(ray_samples_list[:-1], weights_list[:-1]).                     *)
(***************************************************************************)
\* most levels handed to interlevel_loss
MaxLevels == 3

\* the histogram of one level: the ray in one bin or in two
LevelHistograms ==
    {[t |-> t, w |-> w] : t \in {<<0, 2>>}, w \in [1..1 -> 0..2]}
        \cup {[t |-> t, w |-> w] : t \in {<<0, 1, 2>>}, w \in [1..2 -> 0..2]}

\* a call of interlevel_loss on the levels hs, coarse to fine
InterlevelCall(hs) ==
    [fn |-> "interlevel_loss",
     weights_list |-> [k \in 1..Len(hs) |-> hs[k].w],
     ray_samples_list |-> [k \in 1..Len(hs) |-> RaySamplesOf(hs[k].t)]]

InitInterlevel ==
    /\ pc = "called"
    /\ \E L \in 1..MaxLevels : \E hs \in [1..L -> LevelHistograms] :
           call = InterlevelCall(hs)
    /\ ret = NoRet
    /\ frame = NoFrame
    /\ gan = NoObject
    /\ ssi = NoObject

\* lines 115-117
InterlevelEnter ==
    /\ pc = "called"
    /\ call.fn = "interlevel_loss"
    /\ frame' = [fn |-> "interlevel_loss",
                 c |-> ray_samples_to_sdist(
                           call.ray_samples_list[Len(call.ray_samples_list)]),
                 w |-> call.weights_list[Len(call.weights_list)],
                 loss_interlevel |-> EpsZero,
                 k |-> 0]
    /\ pc' = "for"
    /\ UNCHANGED <<call, ret, gan, ssi>>

\* a bug: the loop runs over every level, the finest included
interlevel_pairs_all(weights_list) == Len(weights_list)

\* how many pairs zip(ray_samples_list[:-1], weights_list[:-1]) yields
interlevel_pairs(weights_list) == Len(Front(weights_list))

\* lines 119-122: the term one pair adds
interlevel_term(c, w, ray_samples, weights) ==
    LET sdist == ray_samples_to_sdist(ray_samples)
        cp == sdist
        wp == weights
    IN  EpsMean(lossfun_outer(c, w, cp, wp))

\* lines 118-122: one pass of the for loop
InterlevelIterate ==
    /\ pc = "for"
    /\ frame.k < interlevel_pairs(call.weights_list)
    /\ frame' = [frame EXCEPT
                   !.k = @ + 1,
                   !.loss_interlevel =
                       EpsAdd(@, interlevel_term(frame.c, frame.w,
                                                 call.ray_samples_list[frame.k + 1],
                                                 call.weights_list[frame.k + 1]))]
    /\ UNCHANGED <<pc, call, ret, gan, ssi>>

\* line 123
InterlevelReturn ==
    /\ pc = "for"
    /\ frame.k >= interlevel_pairs(call.weights_list)
    /\ ret' = Return(frame.loss_interlevel)
    /\ pc' = "returned"
    /\ UNCHANGED <<call, frame, gan, ssi>>

NextInterlevel == InterlevelEnter \/ InterlevelIterate \/ InterlevelReturn

SpecInterlevel == InitInterlevel /\ [][NextInterlevel]_vars

(***************************************************************************)
(* The depth losses, losses.py 215-315, on a batch of rays.  A tensor      *)
(* [num_rays, num_samples, 1] is a sequence (rays) of sequences (samples)  *)
(* of fractions, a tensor [num_rays, 1] a sequence of fractions.           *)
(***************************************************************************)
\* most rays of a batch
MaxRays == 2

RSquare(a) == RMul(a, a)

\* -torch.log(w + EPS), EPS = 1.0e-7, to two decimals, for the weights 0, 1/2, 1
NegLogEps(w) ==
    CASE w = RZero -> Rat(1612, 100)
      [] w = Rat(1, 2) -> Rat(69, 100)
      [] w = RInt(1) -> RZero

\* 100 * exp(-k / 4) rounded, k = 0..21; 0 from k = 22 on
ExpNegQuarters ==
    <<100, 78, 61, 47, 37, 29, 22, 17, 14, 11, 8, 6, 5, 4, 3, 2, 2, 1, 1, 1, 1, 1>>

\* torch.exp(-q) to two decimals, for q >= 0 a multiple of 1/4
ExpNeg(q) ==
    LET k == (4 * q.n) \div q.d
    IN  IF k >= Len(ExpNegQuarters) THEN RZero ELSE Rat(ExpNegQuarters[k + 1], 100)

\* torch.exp(Normal(0.0, sigma / URF_SIGMA_SCALE_FACTOR).log_prob(x)) to two decimals,
\* for whole x and sigma 1 or 2: 3 / (sigma sqrt(2 pi)) * exp(-9 x^2 / (2 sigma^2))
NormalPdf(x, sigma) ==
    LET x2 == x.n * x.n
    IN  CASE sigma = 1 /\ x.d = 1 ->
                 (IF x2 = 0 THEN Rat(120, 100) ELSE IF x2 = 1 THEN Rat(1, 100) ELSE RZero)
          [] sigma = 2 /\ x.d = 1 ->
                 (IF x2 = 0 THEN Rat(60, 100) ELSE IF x2 = 1 THEN Rat(19, 100)
                  ELSE IF x2 = 4 THEN Rat(1, 100) ELSE RZero)

\* a bug: a depth of 0 counts as valid
depth_mask_geq(termination_depth) ==
    [r \in 1..Len(termination_depth) |->
        IF RLeq(RZero, termination_depth[r]) THEN 1 ELSE 0]

\* termination_depth > 0, as 0 / 1
depth_mask(termination_depth) ==
    [r \in 1..Len(termination_depth) |->
        IF RLess(RZero, termination_depth[r]) THEN 1 ELSE 0]

ds_nerf_depth_loss(weights, termination_depth, steps, lengths, sigma) ==
    LET mask == depth_mask(termination_depth)
        loss(r, i) ==
            RMul(RMul(NegLogEps(weights[r][i]),
                      ExpNeg(RDivInt(RSquare(RSub(steps[r][i], termination_depth[r])),
                                     2 * sigma))),
                 lengths[r][i])
        summed(r) == RMul(RSum([i \in 1..Len(weights[r]) |-> loss(r, i)]), RInt(mask[r]))
    IN  mean([r \in 1..Len(weights) |-> summed(r)])

\* lines 266-268: steps <= termination_depth + sigma and steps >= termination_depth - sigma,
\* for one sample, as 0 / 1
urf_near_mask(step, termination_depth, sigma) ==
    IF /\ RLeq(step, RAdd(termination_depth, RInt(sigma)))
       /\ RLeq(RSub(termination_depth, RInt(sigma)), step)
    THEN 1 ELSE 0

\* line 269, for one sample
urf_near(weight, step, termination_depth, sigma) ==
    RSquare(RSub(weight, NormalPdf(RSub(step, termination_depth), sigma)))

\* a bug: the boundary termination_depth - sigma counts as empty as well
urf_empty_mask_leq(step, termination_depth, sigma) ==
    IF RLeq(step, RSub(termination_depth, RInt(sigma))) THEN 1 ELSE 0

\* line 271: steps < termination_depth - sigma, for one sample, as 0 / 1
urf_empty_mask(step, termination_depth, sigma) ==
    IF RLess(step, RSub(termination_depth, RInt(sigma))) THEN 1 ELSE 0

\* line 270 before .sum(-2): mask * near of every sample of one ray
urf_near_terms(weights, termination_depth, steps, sigma) ==
    [i \in 1..Len(weights) |->
        RMul(RInt(urf_near_mask(steps[i], termination_depth, sigma)),
             urf_near(weights[i], steps[i], termination_depth, sigma))]

\* line 272 before .sum(-2): mask * weights**2 of every sample of one ray
urf_empty_terms(weights, termination_depth, steps, sigma) ==
    [i \in 1..Len(weights) |->
        RMul(RInt(urf_empty_mask(steps[i], termination_depth, sigma)),
             RSquare(weights[i]))]

\* lines 270-273 of one ray
urf_line_of_sight_loss(weights, termination_depth, steps, sigma) ==
    RAdd(RSum(urf_near_terms(weights, termination_depth, steps, sigma)),
         RSum(urf_empty_terms(weights, termination_depth, steps, sigma)))

urban_radiance_field_depth_loss(weights, termination_depth, predicted_depth, steps, sigma) ==
    LET mask == depth_mask(termination_depth)
        expected_depth_loss(r) == RSquare(RSub(termination_depth[r], predicted_depth[r]))
        line_of_sight_loss(r) ==
            urf_line_of_sight_loss(weights[r], termination_depth[r], steps[r], sigma)
        loss(r) == RMul(RAdd(expected_depth_loss(r), line_of_sight_loss(r)), RInt(mask[r]))
    IN  mean([r \in 1..Len(weights) |-> loss(r)])

\* a bug: the flag is read the wrong way round
depth_loss_termination_depth_flipped(termination_depth, directions_norm, is_euclidean) ==
    IF is_euclidean
    THEN [r \in 1..Len(termination_depth) |->
             RMul(termination_depth[r], directions_norm[r])]
    ELSE termination_depth

\* lines 304-305
depth_loss_termination_depth(termination_depth, directions_norm, is_euclidean) ==
    IF ~is_euclidean
    THEN [r \in 1..Len(termination_depth) |->
             RMul(termination_depth[r], directions_norm[r])]
    ELSE termination_depth

\* line 306
depth_loss_steps(ray_samples) ==
    [r \in 1..Len(ray_samples.frustums.starts) |->
        [i \in 1..Len(ray_samples.frustums.starts[r]) |->
            RDivInt(RAdd(ray_samples.frustums.starts[r][i],
                         ray_samples.frustums.ends[r][i]), 2)]]

\* line 309
depth_loss_lengths(ray_samples) ==
    [r \in 1..Len(ray_samples.frustums.starts) |->
        [i \in 1..Len(ray_samples.frustums.starts[r]) |->
            RSub(ray_samples.frustums.ends[r][i], ray_samples.frustums.starts[r][i])]]

\* the members of DepthLossType, and a value that is none of them
DepthLossTypes == {"DS_NERF", "URF"}

NotADepthLossType == "OTHER"

\* one ray of a batch: two frustums [0, 2], [2, 4], weights in halves, the ground
\* truth depth, the norm of the ray's direction; the predicted depth is the rendered
\* expected depth, the sum of weight * step
RayInputs ==
    {[weights |-> <<Rat(w[1], 2), Rat(w[2], 2)>>,
      starts |-> <<RInt(0), RInt(2)>>,
      ends |-> <<RInt(2), RInt(4)>>,
      termination_depth |-> RInt(d),
      predicted_depth |-> Rat(w[1] * 1 + w[2] * 3, 2),
      directions_norm |-> RInt(m)] :
        w \in {<<0, 2>>, <<1, 1>>, <<2, 0>>}, d \in {-1, 0, 1, 3}, m \in {1, 2}}

Sigmas == {1, 2}

\* a call of depth_loss on the batch `rays`
DepthLossCall(rays, sg, eu, ty) ==
    [fn |-> "depth_loss",
     weights |-> [r \in 1..Len(rays) |-> rays[r].weights],
     ray_samples |-> [frustums |-> [starts |-> [r \in 1..Len(rays) |-> rays[r].starts],
                                    ends |-> [r \in 1..Len(rays) |-> rays[r].ends]]],
     termination_depth |-> [r \in 1..Len(rays) |-> rays[r].termination_depth],
     predicted_depth |-> [r \in 1..Len(rays) |-> rays[r].predicted_depth],
     sigma |-> sg,
     directions_norm |-> [r \in 1..Len(rays) |-> rays[r].directions_norm],
     is_euclidean |-> eu,
     depth_loss_type |-> ty]

InitDepth ==
    /\ pc = "called"
    /\ \E N \in 1..MaxRays : \E rays \in [1..N -> RayInputs] :
       \E sg \in Sigmas, eu \in BOOLEAN, ty \in DepthLossTypes \cup {NotADepthLossType} :
           call = DepthLossCall(rays, sg, eu, ty)
    /\ ret = NoRet
    /\ frame = NoFrame
    /\ gan = NoObject
    /\ ssi = NoObject

\* lines 304-306
DepthLossConvert ==
    /\ pc = "called"
    /\ call.fn = "depth_loss"
    /\ frame' = [fn |-> "depth_loss",
                 termination_depth |->
                     depth_loss_termination_depth(call.termination_depth,
                                                  call.directions_norm, call.is_euclidean),
                 steps |-> depth_loss_steps(call.ray_samples)]
    /\ pc' = "dispatch"
    /\ UNCHANGED <<call, ret, gan, ssi>>

\* lines 308-310
DepthLossDsNerf ==
    /\ pc = "dispatch"
    /\ call.depth_loss_type = "DS_NERF"
    /\ ret' = Return(ds_nerf_depth_loss(call.weights, frame.termination_depth, frame.steps,
                                        depth_loss_lengths(call.ray_samples), call.sigma))
    /\ pc' = "returned"
    /\ UNCHANGED <<call, frame, gan, ssi>>

\* lines 312-313
DepthLossUrf ==
    /\ pc = "dispatch"
    /\ call.depth_loss_type # "DS_NERF"
    /\ call.depth_loss_type = "URF"
    /\ ret' = Return(urban_radiance_field_depth_loss(call.weights, frame.termination_depth,
                                                     call.predicted_depth, frame.steps,
                                                     call.sigma))
    /\ pc' = "returned"
    /\ UNCHANGED <<call, frame, gan, ssi>>

\* line 315
DepthLossNotImplemented ==
    /\ pc = "dispatch"
    /\ call.depth_loss_type # "DS_NERF"
    /\ call.depth_loss_type # "URF"
    /\ ret' = Raise("NotImplementedError", "Provided depth loss type not implemented.")
    /\ pc' = "returned"
    /\ UNCHANGED <<call, frame, gan, ssi>>

NextDepth ==
    DepthLossConvert \/ DepthLossDsNerf \/ DepthLossUrf \/ DepthLossNotImplemented

SpecDepth == InitDepth /\ [][NextDepth]_vars

(***************************************************************************)
(* GANLoss, losses.py 498-538.  An object is the record of its fields.     *)
(* A prediction is a tensor ['batch', 1], a sequence of whole numbers.     *)
(***************************************************************************)
\* most rows of a batch of discriminator predictions
MaxBatch == 1

\* largest reg_step a GANLoss is constructed with
MaxRegStep == 2

\* the names bound at the top level of losses.py: its imports, constants, functions
\* and classes.  A name a function reads without assigning it is looked up here (and
\* then among the builtins, which hold neither `step` nor `real_img`).
ModuleGlobals ==
    {"Enum", "torch", "nn", "TensorType", "Literal", "List", "conv2d_gradfix",
     "RaySamples", "masked_reduction", "normalized_depth_scale_and_shift",
     "L1Loss", "MSELoss", "LOSSES", "EPS", "URF_SIGMA_SCALE_FACTOR", "DepthLossType",
     "outer", "lossfun_outer", "ray_samples_to_sdist", "interlevel_loss",
     "lossfun_distortion", "distortion_loss", "nerfstudio_distortion_loss",
     "orientation_loss", "pred_normal_loss", "ds_nerf_depth_loss",
     "urban_radiance_field_depth_loss", "depth_loss", "monosdf_normal_loss",
     "MiDaSMSELoss", "GradientLoss", "ScaleAndShiftInvariantLoss", "GANLoss"}

\* the global `step` read by line 528: bound or not, and its value when bound
GlobalStep ==
    IF "step" \in ModuleGlobals THEN [bound |-> TRUE, val |-> 0] ELSE [bound |-> FALSE]

NameError(name) == Raise("NameError", name)

\* 100 * softplus(x) = 100 * log(1 + exp(x)) rounded, x = -3..3
SoftplusTable == <<5, 13, 31, 69, 131, 213, 305>>

\* torch.nn.functional.softplus to two decimals
softplus(x) == Rat(SoftplusTable[x + 4], 100)

\* self.non_saturating_loss(sign * pred).mean()
non_saturating_mean(pred, sign) == mean([b \in 1..Len(pred) |-> softplus(sign * pred[b])])

\* __init__, lines 499-509
GANLoss_init(m_type, r1_gamma, reg_step) ==
    [class |-> "GANLoss", m_type |-> m_type, r1_gamma |-> r1_gamma, reg_step |-> reg_step]

\* forward, lines 512-531
GANLoss_forward(self, preds) ==
    IF self.m_type = "G"
    THEN Return(non_saturating_mean(preds[1], -1))
    ELSE IF self.m_type = "D"
    THEN IF Len(preds) # 2
         THEN Raise("ValueError", "unpack")
         ELSE LET fake_pred == preds[1]
                  real_pred == preds[2]
                  loss_Dmain == RAdd(non_saturating_mean(real_pred, -1),
                                     non_saturating_mean(fake_pred, 1))
              IN  IF ~GlobalStep.bound
                  THEN NameError("step")
                  ELSE IF GlobalStep.val % self.reg_step = 0
                  THEN (IF "real_img" \notin ModuleGlobals
                        THEN NameError("real_img")
                        ELSE Return(loss_Dmain))
                  ELSE Return(loss_Dmain)
    ELSE Raise("UnboundLocalError", "loss")

PredValues == {-1, 0, 1}

PredTensors == UNION {[1..B -> PredValues] : B \in 1..MaxBatch}

\* Literal['G', 'D'] is not enforced: any string can be given
ModuleTypes == {"G", "D", "other"}

InitGAN ==
    /\ pc = "constructed"
    /\ call = [fn |-> "GANLoss.__init__"]
    /\ ret = NoRet
    /\ frame = NoFrame
    /\ \E m_type \in ModuleTypes, r1_gamma \in {Rat(1, 5), RInt(1)},
          reg_step \in 1..MaxRegStep :
           gan = GANLoss_init(m_type, r1_gamma, reg_step)
    /\ ssi = NoObject

\* one call gan_loss(preds) with a list of one or two predictions of one batch size
GANForward ==
    /\ gan.class = "GANLoss"
    /\ \E B \in 1..MaxBatch : \E n \in 1..2 : \E preds \in [1..n -> [1..B -> PredValues]] :
          /\ call' = [fn |-> "GANLoss.forward", preds |-> preds]
          /\ ret' = GANLoss_forward(gan, preds)
    /\ pc' = "returned"
    /\ UNCHANGED <<frame, gan, ssi>>

NextGAN == GANForward

SpecGAN == InitGAN /\ [][NextGAN]_vars

(***************************************************************************)
(* MiDaSMSELoss, GradientLoss and ScaleAndShiftInvariantLoss, losses.py    *)
(* 336-490.  An image is a sequence of rows of whole numbers, a tensor     *)
(* [batch, H, W] a sequence of images, a mask an image of 0 / 1.           *)
(***************************************************************************)
\* most scales a GradientLoss is constructed with
MaxScales == 2

Height(img) == Len(img)

Width(img) == Len(img[1])

\* torch.sum(x, (1, 2)) of one image
SumImage(img) == SumSeq([i \in 1..Len(img) |-> SumSeq(img[i])])

\* masked_reduction(input_tensor, mask, reduction_type), utils/math.py (outside these
\* files): "batch" divides the summed losses by the summed normalisers and gives 0
\* when those sum to 0; "image" divides each image's loss by its normaliser where
\* that is not 0 and averages over the batch
masked_reduction(input_tensor, mask, reduction_type) ==
    IF reduction_type = "batch"
    THEN IF SumSeq(mask) = 0 THEN RZero ELSE Rat(SumSeq(input_tensor), SumSeq(mask))
    ELSE mean([b \in 1..Len(input_tensor) |->
                  IF mask[b] # 0 THEN Rat(input_tensor[b], mask[b])
                  ELSE RInt(input_tensor[b])])

\* MiDaSMSELoss.forward, lines 348-364
MiDaSMSELoss_forward(reduction_type, prediction, target, mask) ==
    LET B == Len(prediction)
        summed_mask == [b \in 1..B |-> SumImage(mask[b])]
        sq(b) == [i \in 1..Height(mask[b]) |-> [j \in 1..Width(mask[b]) |->
                    (prediction[b][i][j] - target[b][i][j])
                        * (prediction[b][i][j] - target[b][i][j]) * mask[b][i][j]]]
        image_loss == [b \in 1..B |-> SumImage(sq(b))]
    IN  masked_reduction(image_loss, [b \in 1..B |-> 2 * summed_mask[b]], reduction_type)

\* a bug: the stride is ignored, every scale sees the full image
Strided_full_resolution(img, step) == img

\* x[:, ::step, ::step] of one image
Strided(img, step) ==
    [i \in 1..((Height(img) + step - 1) \div step) |->
        [j \in 1..((Width(img) + step - 1) \div step) |->
            img[(i - 1) * step + 1][(j - 1) * step + 1]]]

\* GradientLoss.gradient_loss, lines 410-439
GradientLoss_gradient_loss(reduction_type, prediction, target, mask) ==
    LET B == Len(prediction)
        summed_mask == [b \in 1..B |-> SumImage(mask[b])]
        diff(b, i, j) == mask[b][i][j] * (prediction[b][i][j] - target[b][i][j])
        grad_x(b) == [i \in 1..Height(mask[b]) |-> [j \in 1..(Width(mask[b]) - 1) |->
                        (mask[b][i][j + 1] * mask[b][i][j])
                            * Abs(diff(b, i, j + 1) - diff(b, i, j))]]
        grad_y(b) == [i \in 1..(Height(mask[b]) - 1) |-> [j \in 1..Width(mask[b]) |->
                        (mask[b][i + 1][j] * mask[b][i][j])
                            * Abs(diff(b, i + 1, j) - diff(b, i, j))]]
        image_loss == [b \in 1..B |-> SumImage(grad_x(b)) + SumImage(grad_y(b))]
    IN  masked_reduction(image_loss, summed_mask, reduction_type)

RECURSIVE Pow2(_)
Pow2(k) == IF k = 0 THEN 1 ELSE 2 * Pow2(k - 1)

\* GradientLoss.forward, lines 385-408: scale = 0 .. scales - 1
GradientLoss_forward(scales, reduction_type, prediction, target, mask) ==
    LET at(x, step) == [b \in 1..Len(x) |-> Strided(x[b], step)]
        grad_loss(scale) ==
            GradientLoss_gradient_loss(reduction_type, at(prediction, Pow2(scale)),
                                       at(target, Pow2(scale)), at(mask, Pow2(scale)))
    IN  RSum([k \in 1..scales |-> grad_loss(k - 1)])

\* ScaleAndShiftInvariantLoss.__init__, lines 449-461
ScaleAndShiftInvariantLoss_init(alpha, scales, reduction_type) ==
    [class |-> "ScaleAndShiftInvariantLoss", alpha |-> alpha, scales |-> scales,
     reduction_type |-> reduction_type, prediction_ssi |-> None]

\* a bug: the shift is left out of the aligned prediction
aligned_prediction_no_shift(scale, shift, prediction) ==
    [b \in 1..Len(prediction) |->
        [i \in 1..Height(prediction[b]) |-> [j \in 1..Width(prediction[b]) |->
            scale[b] * prediction[b][i][j]]]]

\* line 475: scale.view(-1, 1, 1) * prediction + shift.view(-1, 1, 1)
aligned_prediction(scale, shift, prediction) ==
    [b \in 1..Len(prediction) |->
        [i \in 1..Height(prediction[b]) |-> [j \in 1..Width(prediction[b]) |->
            scale[b] * prediction[b][i][j] + shift[b]]]]

\* lines 477-481, given the aligned prediction
ScaleAndShiftInvariantLoss_total(self, prediction_ssi, target, mask) ==
    LET total == MiDaSMSELoss_forward(self.reduction_type, prediction_ssi, target, mask)
    IN  IF RLess(RZero, self.alpha)
        THEN RAdd(total, RMul(self.alpha,
                              GradientLoss_forward(self.scales, self.reduction_type,
                                                   prediction_ssi, target, mask)))
        ELSE total

\* the depth maps and masks handed to forward: one image of 2 x 2 pixels
DepthImages == {<<<<0, 1>>, <<2, 1>>>>, <<<<1, 1>>, <<0, 2>>>>}

MaskImages == {<<<<1, 1>>, <<1, 1>>>>, <<<<1, 0>>, <<1, 1>>>>, <<<<0, 0>>, <<0, 0>>>>}

\* what normalized_depth_scale_and_shift (utils/math.py, outside these files) can
\* return for one image: some scale and some shift
AlignmentScales == {0, 1, 2}

AlignmentShifts == {0, 1}

InitSSI ==
    /\ pc = "constructed"
    /\ call = [fn |-> "ScaleAndShiftInvariantLoss.__init__"]
    /\ ret = NoRet
    /\ frame = NoFrame
    /\ gan = NoObject
    /\ \E alpha \in {RZero, Rat(1, 2), Rat(-1, 2)}, scales \in 1..MaxScales,
          reduction_type \in {"batch", "image"} :
           ssi = ScaleAndShiftInvariantLoss_init(alpha, scales, reduction_type)

\* forward, lines 463-481; frame keeps the locals of the most recent forward call
SSIForward ==
    /\ ssi.class = "ScaleAndShiftInvariantLoss"
    /\ \E p \in DepthImages, t \in DepthImages, m \in MaskImages,
          sc \in AlignmentScales, sh \in AlignmentShifts :
          LET prediction == <<p>>
              target == <<t>>
              mask == <<m>>
              scale == <<sc>>
              shift == <<sh>>
              prediction_ssi == aligned_prediction(scale, shift, prediction)
          IN  /\ call' = [fn |-> "ScaleAndShiftInvariantLoss.forward"]
              /\ frame' = [fn |-> "ScaleAndShiftInvariantLoss.forward",
                           prediction |-> prediction, target |-> target, mask |-> mask,
                           scale |-> scale, shift |-> shift]
              /\ ssi' = [ssi EXCEPT !.prediction_ssi = Tensor(prediction_ssi)]
              /\ ret' = Return(ScaleAndShiftInvariantLoss_total(ssi, prediction_ssi,
                                                                target, mask))
    /\ pc' = "returned"
    /\ UNCHANGED gan

\* reading the property prediction_ssi, lines 483-490
SSIGetPredictionSsi ==
    /\ ssi.class = "ScaleAndShiftInvariantLoss"
    /\ call' = [fn |-> "ScaleAndShiftInvariantLoss.prediction_ssi"]
    /\ ret' = Return(ssi.prediction_ssi)
    /\ pc' = "returned"
    /\ UNCHANGED <<frame, gan, ssi>>

\* assigning to the property prediction_ssi, line 490: it has no setter
SSISetPredictionSsi ==
    /\ ssi.class = "ScaleAndShiftInvariantLoss"
    /\ call' = [fn |-> "ScaleAndShiftInvariantLoss.prediction_ssi = "]
    /\ ret' = Raise("AttributeError", "can't set attribute")
    /\ pc' = "returned"
    /\ UNCHANGED <<frame, gan, ssi>>

NextSSI == SSIForward \/ SSIGetPredictionSsi \/ SSISetPredictionSsi

SpecSSI == InitSSI /\ [][NextSSI]_vars

(***************************************************************************)
(* urban_radiance_field_depth_loss called on its own, losses.py 240-276.   *)
(* frame keeps its locals: the two masks and the masked terms of every     *)
(* sample, and the line-of-sight loss of every ray.                        *)
(***************************************************************************)
\* one ray: two samples at the steps 1 and 3, weights in halves that sum to 1
UrfRayInputs ==
    {[weights |-> <<Rat(w[1], 2), Rat(w[2], 2)>>,
      steps |-> <<RInt(1), RInt(3)>>,
      termination_depth |-> RInt(d),
      predicted_depth |-> Rat(w[1] * 1 + w[2] * 3, 2)] :
        w \in {<<0, 2>>, <<1, 1>>, <<2, 0>>}, d \in {-1, 0, 1, 2, 3, 4, 6}}

\* a call of urban_radiance_field_depth_loss on the batch `rays`
UrfCall(rays, sg) ==
    [fn |-> "urban_radiance_field_depth_loss",
     weights |-> [r \in 1..Len(rays) |-> rays[r].weights],
     termination_depth |-> [r \in 1..Len(rays) |-> rays[r].termination_depth],
     predicted_depth |-> [r \in 1..Len(rays) |-> rays[r].predicted_depth],
     steps |-> [r \in 1..Len(rays) |-> rays[r].steps],
     sigma |-> sg]

InitUrf ==
    /\ pc = "called"
    /\ \E N \in 1..MaxRays : \E rays \in [1..N -> UrfRayInputs] : \E sg \in Sigmas :
           call = UrfCall(rays, sg)
    /\ ret = NoRet
    /\ frame = NoFrame
    /\ gan = NoObject
    /\ ssi = NoObject

\* lines 258-276
UrfDepthLoss ==
    /\ pc = "called"
    /\ call.fn = "urban_radiance_field_depth_loss"
    /\ LET N == Len(call.weights)
           S(r) == Len(call.weights[r])
           td(r) == call.termination_depth[r]
       IN  frame' =
             [fn |-> "urban_radiance_field_depth_loss",
              depth_mask |-> depth_mask(call.termination_depth),
              line_of_sight_loss_near_mask |->
                  [r \in 1..N |-> [i \in 1..S(r) |->
                      urf_near_mask(call.steps[r][i], td(r), call.sigma)]],
              line_of_sight_loss_empty_mask |->
                  [r \in 1..N |-> [i \in 1..S(r) |->
                      urf_empty_mask(call.steps[r][i], td(r), call.sigma)]],
              near_terms |->
                  [r \in 1..N |->
                      urf_near_terms(call.weights[r], td(r), call.steps[r], call.sigma)],
              empty_terms |->
                  [r \in 1..N |->
                      urf_empty_terms(call.weights[r], td(r), call.steps[r], call.sigma)],
              line_of_sight_loss |->
                  [r \in 1..N |->
                      urf_line_of_sight_loss(call.weights[r], td(r), call.steps[r],
                                             call.sigma)]]
    /\ ret' = Return(urban_radiance_field_depth_loss(call.weights, call.termination_depth,
                                                     call.predicted_depth, call.steps,
                                                     call.sigma))
    /\ pc' = "returned"
    /\ UNCHANGED <<call, gan, ssi>>

NextUrf == UrfDepthLoss

SpecUrf == InitUrf /\ [][NextUrf]_vars

(***************************************************************************)
(* GradientLoss called on its own, losses.py 368-439.  The object is kept  *)
(* in ssi; frame holds the locals of forward: total, the next scale and    *)
(* the strides taken so far.  Neither method assigns a field of the        *)
(* object, so a run follows one call on a newly constructed object.        *)
(***************************************************************************)
\* most images in a batch handed to GradientLoss
MaxImages == 2

\* __init__, lines 375-383
GradientLoss_init(scales, reduction_type) ==
    [class |-> "GradientLoss", scales |-> scales, reduction_type |-> reduction_type]

\* depth maps of 3 x 3 pixels
GradientPredictions == {<<<<0, 1, 3>>, <<2, 1, 0>>, <<1, 3, 2>>>>,
                        <<<<1, 1, 0>>, <<0, 2, 2>>, <<3, 0, 1>>>>}

GradientTargets == {<<<<0, 0, 0>>, <<0, 0, 0>>, <<0, 0, 0>>>>,
                    <<<<1, 0, 1>>, <<0, 1, 0>>, <<1, 0, 2>>>>}

\* masks of 3 x 3 pixels: all valid, some valid, none valid
GradientMasks == {<<<<1, 1, 1>>, <<1, 1, 1>>, <<1, 1, 1>>>>,
                  <<<<1, 0, 1>>, <<1, 1, 1>>, <<0, 1, 1>>>>,
                  <<<<0, 0, 0>>, <<0, 0, 0>>, <<0, 0, 0>>>>}

\* the arguments (prediction, target, mask) of forward and of gradient_loss
GradientCall(fn, prediction, target, mask) ==
    [fn |-> fn, prediction |-> prediction, target |-> target, mask |-> mask]

InitGradient ==
    /\ pc = "constructed"
    /\ call = [fn |-> "GradientLoss.__init__"]
    /\ ret = NoRet
    /\ frame = NoFrame
    /\ gan = NoObject
    /\ \E scales \in 1..MaxScales, reduction_type \in {"batch", "image"} :
           ssi = GradientLoss_init(scales, reduction_type)

\* gradient_loss called from outside, lines 410-439
GradientGradientLoss ==
    /\ ssi.class = "GradientLoss"
    /\ pc = "constructed"
    /\ \E B \in 1..MaxImages :
       \E prediction \in [1..B -> GradientPredictions], target \in [1..B -> GradientTargets],
          mask \in [1..B -> GradientMasks] :
          /\ call' = GradientCall("GradientLoss.gradient_loss", prediction, target, mask)
          /\ ret' = Return(GradientLoss_gradient_loss(ssi.reduction_type,
                                                      prediction, target, mask))
    /\ pc' = "returned"
    /\ frame' = NoFrame
    /\ UNCHANGED <<gan, ssi>>

\* forward is called, line 396: total = 0
GradientForwardEnter ==
    /\ ssi.class = "GradientLoss"
    /\ pc = "constructed"
    /\ \E B \in 1..MaxImages :
       \E prediction \in [1..B -> GradientPredictions], target \in [1..B -> GradientTargets],
          mask \in [1..B -> GradientMasks] :
          call' = GradientCall("GradientLoss.forward", prediction, target, mask)
    /\ frame' = [fn |-> "GradientLoss.forward", total |-> RZero, scale |-> 0,
                 steps |-> <<>>]
    /\ ret' = NoRet
    /\ pc' = "for scale"
    /\ UNCHANGED <<gan, ssi>>

\* lines 398-406: one pass of the loop over range(self.__scales)
GradientForwardIterate ==
    /\ pc = "for scale"
    /\ frame.scale < ssi.scales
    /\ LET step == Pow2(frame.scale)
           at(x) == [b \in 1..Len(x) |-> Strided(x[b], step)]
           grad_loss == GradientLoss_gradient_loss(ssi.reduction_type,
                            at(call.prediction), at(call.target), at(call.mask))
       IN  frame' = [frame EXCEPT !.total = RAdd(@, grad_loss),
                                  !.scale = @ + 1,
                                  !.steps = Append(@, step)]
    /\ UNCHANGED <<pc, call, ret, gan, ssi>>

\* line 408
GradientForwardReturn ==
    /\ pc = "for scale"
    /\ frame.scale >= ssi.scales
    /\ ret' = Return(frame.total)
    /\ pc' = "returned"
    /\ UNCHANGED <<call, frame, gan, ssi>>

NextGradient ==
    \/ GradientGradientLoss
    \/ GradientForwardEnter
    \/ GradientForwardIterate
    \/ GradientForwardReturn

SpecGradient == InitGradient /\ [][NextGradient]_vars

(***************************************************************************)
(* Claims about outer.                                                     *)
(***************************************************************************)
OuterReturned == pc = "returned" /\ call.fn = "outer"

\* the source bins are the target bins
AlignedBins == call.t0_starts = call.t1_starts /\ call.t0_ends = call.t1_ends

PositiveWidth(starts, ends) == \A i \in 1..Len(starts) : starts[i] < ends[i]

Max(S) == CHOOSE x \in S : \A y \in S : y <= x

\* y[a] + ... + y[b]
SumRange(y, a, b) == SumSeq(SubSeq(y, a, b))

\* C1 as the spec states it, on its plainest inputs (aligned bins, every bin of
\* positive width): outer returns y1 exactly, bin for bin.
C1_OuterIdentity ==
    (OuterReturned /\ AlignedBins /\ PositiveWidth(call.t1_starts, call.t1_ends))
        => ret.val = call.y1

\* C1 amended: with aligned bins, bin i of the result is the sum of y1 over the bins
\* from the last bin that starts where bin i starts to the bin after the last bin
\* that ends where bin i ends (the last bin, when none follows).  When every bin has
\* positive width that is y1[i] + y1[i+1], and y1[i] alone for the last bin: the next
\* bin's mass is always taken in.
C1_AlignedOuterTakesNextBin ==
    (OuterReturned /\ AlignedBins) =>
        LET n == Len(call.y1)
            lo(i) == Max({j \in 1..n : call.t1_starts[j] = call.t1_starts[i]})
            hi(i) == LET e == Max({j \in 1..n : call.t1_ends[j] = call.t1_ends[i]})
                     IN  IF e < n THEN e + 1 ELSE n
        IN  /\ \A i \in 1..n : ret.val[i] = SumRange(call.y1, lo(i), hi(i))
            /\ PositiveWidth(call.t1_starts, call.t1_ends) =>
                   \A i \in 1..n :
                       ret.val[i] = call.y1[i] + (IF i < n THEN call.y1[i + 1] ELSE 0)

\* C1 witness: aligned bins of positive width whose second bin carries mass, so
\* that the first bin of the result is larger than y1's.
C1_Witness ==
    /\ OuterReturned
    /\ AlignedBins
    /\ PositiveWidth(call.t1_starts, call.t1_ends)
    /\ Len(call.y1) >= 2
    /\ call.y1[2] > 0
    /\ ret.val[1] = call.y1[1] + call.y1[2]

\* the source partition spans the full extent of the target partition
SpansTarget ==
    /\ call.t0_starts[1] <= call.t1_starts[1]
    /\ call.t0_ends[Len(call.t0_ends)] >= call.t1_ends[Len(call.t1_ends)]

\* C2 as the spec states it, on its plainest inputs (every bin of both partitions
\* of positive width): when t0 spans the extent of t1, the result sums to sum(y1).
C2_MassConservation ==
    (/\ OuterReturned
     /\ SpansTarget
     /\ PositiveWidth(call.t0_starts, call.t0_ends)
     /\ PositiveWidth(call.t1_starts, call.t1_ends))
        => SumSeq(ret.val) = SumSeq(call.y1)

\* C2 amended: when t0 spans the extent of a target partition whose bins have
\* positive width, the result sums to at least sum(y1) (no mass is lost, mass may be
\* counted in several source bins), and to exactly sum(y1) when t0 is a single bin.
C2_MassNotLost ==
    (OuterReturned /\ SpansTarget /\ PositiveWidth(call.t1_starts, call.t1_ends))
        => /\ SumSeq(ret.val) >= SumSeq(call.y1)
           /\ Len(call.t0_starts) = 1 => SumSeq(ret.val) = SumSeq(call.y1)

\* C2 witness: a source partition of two bins spanning the target, whose result
\* sums to more than sum(y1).
C2_Witness ==
    /\ OuterReturned
    /\ SpansTarget
    /\ PositiveWidth(call.t1_starts, call.t1_ends)
    /\ Len(call.t0_starts) = 2
    /\ SumSeq(ret.val) > SumSeq(call.y1)

(***************************************************************************)
(* Claims about the distortion losses.                                     *)
(***************************************************************************)
NerfstudioDistortionReturned ==
    pc = "returned" /\ call.fn = "nerfstudio_distortion_loss"

BothAssertion == Raise("AssertionError", "Cannot use both densities and weights")

\* C3: nerfstudio_distortion_loss raises 'Cannot use both densities and weights'
\* exactly when densities and weights are both tensors; given only one of them (and
\* ray samples with spacing) it returns the loss.
C3_AssertionExactlyWhenBoth ==
    NerfstudioDistortionReturned =>
        /\ (ret = BothAssertion) <=> (is_tensor(call.densities) /\ is_tensor(call.weights))
        /\ (/\ is_tensor(call.densities) # is_tensor(call.weights)
            /\ is_not_None(call.ray_samples.spacing_starts)) => ret.kind = "return"

\* 6 * (sum over ordered pairs of w_i w_j |mid_i - mid_j| + sum w_i^2 width_i / 3),
\* in integers, from the edge vector t
SixTimesDistortion(t, w) ==
    LET n == Len(w)
        row(i) == SumSeq([j \in 1..n |->
                     w[i] * w[j] * Abs((t[i] + t[i + 1]) - (t[j] + t[j + 1]))])
    IN  3 * SumSeq([i \in 1..n |-> row(i)])
          + 2 * SumSeq([i \in 1..n |-> w[i] * w[i] * (t[i + 1] - t[i])])

\* C6: on the same partition and weights, nerfstudio_distortion_loss (given weights)
\* and lossfun_distortion on the edge vector return the same value, the pairwise sum
\* of w_i w_j |mid_i - mid_j| plus sum w_i^2 width_i / 3; distortion_loss of a single
\* ray returns it too.
C6_DistortionEquivalence ==
    /\ (/\ NerfstudioDistortionReturned
        /\ ~is_tensor(call.densities)
        /\ is_tensor(call.weights)
        /\ is_not_None(call.ray_samples.spacing_starts)) =>
           LET t == ray_samples_to_sdist(call.ray_samples)
               w == call.weights.val
           IN  /\ ret.kind = "return"
               /\ ret.val = lossfun_distortion(t, w)
               /\ ret.val = Rat(SixTimesDistortion(t, w), 6)
    /\ (pc = "returned" /\ call.fn = "distortion_loss") =>
           ret.val = Rat(SixTimesDistortion(
                             ray_samples_to_sdist(call.ray_samples_list[1]),
                             call.weights_list[1]), 6)

\* C6 witness: two bins of different widths, both with weight, and a loss with a
\* pairwise part and a self part.
C6_Witness ==
    /\ NerfstudioDistortionReturned
    /\ is_tensor(call.weights)
    /\ ret.kind = "return"
    /\ Len(call.weights.val) = 2
    /\ call.weights.val[1] > 0
    /\ call.weights.val[2] > 0
    /\ call.ray_samples.spacing_starts.val[1] < call.ray_samples.spacing_ends.val[1]
    /\ ret.val.d = 3
    /\ ret.val = lossfun_distortion(ray_samples_to_sdist(call.ray_samples),
                                    call.weights.val)

(***************************************************************************)
(* Claims about interlevel_loss.                                           *)
(***************************************************************************)
\* the mean of lossfun_outer with the finest level (the last) as the inner
\* histogram and level k as the envelope
LevelTerm(k) ==
    LET L == Len(call.weights_list)
    IN  EpsMean(lossfun_outer(ray_samples_to_sdist(call.ray_samples_list[L]),
                              call.weights_list[L],
                              ray_samples_to_sdist(call.ray_samples_list[k]),
                              call.weights_list[k]))

RECURSIVE LevelTermsUpTo(_)
LevelTermsUpTo(k) ==
    IF k = 0 THEN EpsZero ELSE EpsAdd(LevelTermsUpTo(k - 1), LevelTerm(k))

\* C7: interlevel_loss over L >= 1 levels returns without failing, having accumulated
\* exactly L - 1 terms, one per coarser level k < L, each the mean of lossfun_outer
\* with the finest level as (t, w) and level k as (t_env, w_env); the finest level
\* adds no term and one level gives 0.  While the loop runs, the accumulator holds
\* the terms of the levels passed so far.
C7_InterlevelTerms ==
    LET L == Len(call.weights_list)
    IN  /\ (pc = "for" /\ call.fn = "interlevel_loss") =>
               /\ frame.k <= L - 1
               /\ frame.loss_interlevel = LevelTermsUpTo(frame.k)
        /\ (pc = "returned" /\ call.fn = "interlevel_loss") =>
               /\ ret.kind = "return"
               /\ frame.k = L - 1
               /\ ret.val = LevelTermsUpTo(L - 1)
               /\ L = 1 => ret.val = EpsZero

\* C7 witness: three levels, two terms accumulated, both of them positive.
C7_Witness ==
    /\ pc = "returned"
    /\ call.fn = "interlevel_loss"
    /\ Len(call.weights_list) = 3
    /\ frame.k = 2
    /\ LevelTerm(1) # EpsZero
    /\ LevelTerm(2) # EpsZero
    /\ LevelTerm(1) # LevelTerm(2)
    /\ ret.val = EpsAdd(LevelTerm(1), LevelTerm(2))

(***************************************************************************)
(* Claims about the depth losses.                                          *)
(***************************************************************************)
\* depth_loss has called ds_nerf_depth_loss or urban_radiance_field_depth_loss and
\* returned what it returned; frame.termination_depth is the depth it passed on
DepthLossReturned(type) ==
    pc = "returned" /\ call.fn = "depth_loss" /\ call.depth_loss_type = type

NumRays == Len(call.weights)

\* the rays with termination_depth > 0
ValidRays == {r \in 1..NumRays : frame.termination_depth[r].n > 0}

\* C4: when every ray of the batch has termination_depth <= 0, ds_nerf_depth_loss
\* and urban_radiance_field_depth_loss both return exactly 0.
C4_AllInvalidIsZero ==
    ((DepthLossReturned("DS_NERF") \/ DepthLossReturned("URF")) /\ ValidRays = {})
        => ret = Return(RZero)

\* the term of ray r before masking: the sum over its samples (DS-NeRF) or the
\* expected-depth term plus the line-of-sight term (URF)
RayTerm(r) ==
    LET td == frame.termination_depth[r]
        n == Len(call.weights[r])
        w(i) == call.weights[r][i]
        step(i) == frame.steps[r][i]
        sg == call.sigma
    IN  IF call.depth_loss_type = "DS_NERF"
        THEN RSum([i \in 1..n |->
                     RMul(RMul(NegLogEps(w(i)),
                               ExpNeg(RDivInt(RSquare(RSub(step(i), td)), 2 * sg))),
                          RSub(call.ray_samples.frustums.ends[r][i],
                               call.ray_samples.frustums.starts[r][i]))])
        ELSE RAdd(RSquare(RSub(td, call.predicted_depth[r])),
                  RSum([i \in 1..n |->
                          IF RLess(step(i), RSub(td, RInt(sg)))
                          THEN RSquare(w(i))
                          ELSE IF RLeq(step(i), RAdd(td, RInt(sg)))
                          THEN RSquare(RSub(w(i), NormalPdf(RSub(step(i), td), sg)))
                          ELSE RZero]))

RECURSIVE SumOfTerms(_)
SumOfTerms(R) ==
    IF R = {} THEN RZero
    ELSE LET r == CHOOSE x \in R : TRUE
         IN  RAdd(RayTerm(r), SumOfTerms(R \ {r}))

\* C4 witness: a batch of invalid rays only, one of which would have a positive
\* term were it not masked.
C4_Witness ==
    /\ DepthLossReturned("DS_NERF") \/ DepthLossReturned("URF")
    /\ ValidRays = {}
    /\ \E r \in 1..NumRays : RLess(RZero, RayTerm(r))
    /\ ret = Return(RZero)

\* C5 as the spec states it: the loss is the mean over the valid rays alone, the sum
\* of their terms divided by their number.
C5_MeanOverValidRays ==
    ((DepthLossReturned("DS_NERF") \/ DepthLossReturned("URF")) /\ ValidRays # {})
        => ret.val = RDivInt(SumOfTerms(ValidRays), Cardinality(ValidRays))

\* C5 amended: the loss is the sum of the terms of the valid rays divided by the
\* number of ALL rays of the batch: an invalid ray adds 0 to the sum and 1 to the
\* divisor.
C5_MaskedSumOverAllRays ==
    (DepthLossReturned("DS_NERF") \/ DepthLossReturned("URF"))
        => ret = Return(RDivInt(SumOfTerms(ValidRays), NumRays))

\* C5 witness: one valid ray with a positive term and one invalid ray; the loss is
\* half the valid ray's term.
C5_Witness ==
    /\ DepthLossReturned("DS_NERF") \/ DepthLossReturned("URF")
    /\ NumRays = 2
    /\ Cardinality(ValidRays) = 1
    /\ RLess(RZero, SumOfTerms(ValidRays))
    /\ ret.val = RDivInt(SumOfTerms(ValidRays), 2)

\* the depth that depth_loss is to pass on
PassedOnDepth ==
    [r \in 1..NumRays |->
        IF call.is_euclidean THEN call.termination_depth[r]
        ELSE RMul(call.termination_depth[r], call.directions_norm[r])]

\* C10: depth_loss returns ds_nerf_depth_loss for DS_NERF and
\* urban_radiance_field_depth_loss for URF, raises NotImplementedError for any other
\* type, and in all cases passes on termination_depth * directions_norm when
\* is_euclidean is false and termination_depth unchanged when it is true.
C10_DepthLossDispatch ==
    /\ (pc \in {"dispatch", "returned"} /\ call.fn = "depth_loss") =>
           frame.termination_depth = PassedOnDepth
    /\ DepthLossReturned("DS_NERF") =>
           ret = Return(ds_nerf_depth_loss(call.weights, PassedOnDepth,
                                           depth_loss_steps(call.ray_samples),
                                           depth_loss_lengths(call.ray_samples),
                                           call.sigma))
    /\ DepthLossReturned("URF") =>
           ret = Return(urban_radiance_field_depth_loss(call.weights, PassedOnDepth,
                                                        call.predicted_depth,
                                                        depth_loss_steps(call.ray_samples),
                                                        call.sigma))
    /\ (pc = "returned" /\ call.fn = "depth_loss"
            /\ call.depth_loss_type \notin {"DS_NERF", "URF"}) =>
           ret = Raise("NotImplementedError", "Provided depth loss type not implemented.")

\* C10 witness: a non-euclidean URF call whose ray has depth 1 and norm 2, passed on
\* as depth 2, returning a positive loss.
C10_Witness ==
    /\ DepthLossReturned("URF")
    /\ ~call.is_euclidean
    /\ call.termination_depth[1] = RInt(1)
    /\ call.directions_norm[1] = RInt(2)
    /\ frame.termination_depth[1] = RInt(2)
    /\ ret.kind = "return"
    /\ RLess(RZero, ret.val)

(***************************************************************************)
(* Claims about GANLoss.                                                   *)
(***************************************************************************)
GANForwardReturned == pc = "returned" /\ call.fn = "GANLoss.forward"

\* C8: in discriminator mode every GANLoss.forward call (given the fake and the real
\* prediction) returns a loss, the R1 penalty added on the calls whose step is a
\* multiple of reg_step; a generator-mode call returns the loss without penalty.
C8_DiscriminatorCallReturnsLoss ==
    /\ (GANForwardReturned /\ gan.m_type = "D" /\ Len(call.preds) = 2)
           => ret.kind = "return"
    /\ (GANForwardReturned /\ gan.m_type = "G")
           => ret = Return(non_saturating_mean(call.preds[1], -1))

(***************************************************************************)
(* Claims about ScaleAndShiftInvariantLoss.                                *)
(***************************************************************************)
\* scale * prediction + shift of the most recent forward call, pixel by pixel
LastAligned ==
    [b \in 1..Len(frame.prediction) |->
        [i \in 1..2 |-> [j \in 1..2 |->
            frame.scale[b] * frame.prediction[b][i][j] + frame.shift[b]]]]

\* C9: prediction_ssi is None before the first forward call and afterwards
\* scale * prediction + shift of the most recent forward call, whatever alpha is;
\* reading the property returns it, and neither reading it nor assigning to it
\* changes it.
C9_PredictionSsiIsLastAligned ==
    (ssi.class = "ScaleAndShiftInvariantLoss") =>
        /\ frame = NoFrame => ssi.prediction_ssi = None
        /\ frame # NoFrame => ssi.prediction_ssi = Tensor(LastAligned)
        /\ (pc = "returned" /\ call.fn = "ScaleAndShiftInvariantLoss.prediction_ssi")
               => ret = Return(ssi.prediction_ssi)
        /\ (pc = "returned" /\ call.fn = "ScaleAndShiftInvariantLoss.prediction_ssi = ")
               => ret.kind = "raise"

\* C9 witness: an object with alpha <= 0 whose property is read after a forward call
\* that scaled by 2 and shifted by 1.
C9_Witness ==
    /\ ssi.class = "ScaleAndShiftInvariantLoss"
    /\ ~RLess(RZero, ssi.alpha)
    /\ pc = "returned"
    /\ call.fn = "ScaleAndShiftInvariantLoss.prediction_ssi"
    /\ frame # NoFrame
    /\ frame.scale = <<2>>
    /\ frame.shift = <<1>>
    /\ frame.prediction = <<<<<<0, 1>>, <<2, 1>>>>>>
    /\ ret = Return(Tensor(<<<<<<1, 3>>, <<5, 3>>>>>>))

(***************************************************************************)
(* Claims about GradientLoss.                                              *)
(***************************************************************************)
\* every step-th row and column of an image, from the first
EveryNth(img, step) ==
    LET rows == {i \in 1..Len(img) : (i - 1) % step = 0}
        cols == {j \in 1..Len(img[1]) : (j - 1) % step = 0}
    IN  [i \in 1..Cardinality(rows) |-> [j \in 1..Cardinality(cols) |->
            img[1 + (i - 1) * step][1 + (j - 1) * step]]]

\* for one image: the sum over horizontally and vertically adjacent pixel pairs of
\* the finite difference of the masked residual m * (p - t), squared or absolute,
\* weighted by the product of the pair's two mask values
AdjacentPairSum(p, t, m, squared) ==
    LET H == Len(m)
        W == Len(m[1])
        r(i, j) == m[i][j] * (p[i][j] - t[i][j])
        size(d) == IF squared THEN d * d ELSE Abs(d)
        across == SumSeq([i \in 1..H |-> SumSeq([j \in 1..(W - 1) |->
                     m[i][j] * m[i][j + 1] * size(r(i, j + 1) - r(i, j))])])
        down == SumSeq([j \in 1..W |-> SumSeq([i \in 1..(H - 1) |->
                     m[i][j] * m[i + 1][j] * size(r(i + 1, j) - r(i, j))])])
    IN  across + down

\* the reduction of the per-image pair sums of the call's batch taken with one stride
GradientAtStride(step, squared) ==
    LET B == Len(call.prediction)
    IN  masked_reduction(
            [b \in 1..B |-> AdjacentPairSum(EveryNth(call.prediction[b], step),
                                            EveryNth(call.target[b], step),
                                            EveryNth(call.mask[b], step), squared)],
            [b \in 1..B |-> SumImage(EveryNth(call.mask[b], step))],
            ssi.reduction_type)

\* the sum over the first k strides 1, 2, 4, ...
RECURSIVE GradientScalesUpTo(_, _)
GradientScalesUpTo(k, squared) ==
    IF k = 0 THEN RZero
    ELSE RAdd(GradientScalesUpTo(k - 1, squared), GradientAtStride(2 ^ (k - 1), squared))

GradientLossStatement(squared) ==
    /\ (pc = "returned" /\ call.fn = "GradientLoss.gradient_loss") =>
           ret = Return(GradientAtStride(1, squared))
    /\ (pc = "for scale" /\ call.fn = "GradientLoss.forward") =>
           /\ frame.scale <= ssi.scales
           /\ frame.steps = [k \in 1..frame.scale |-> 2 ^ (k - 1)]
           /\ frame.total = GradientScalesUpTo(frame.scale, squared)
    /\ (pc = "returned" /\ call.fn = "GradientLoss.forward") =>
           /\ frame.steps = [k \in 1..ssi.scales |-> 2 ^ (k - 1)]
           /\ ret = Return(GradientScalesUpTo(ssi.scales, squared))

\* C11 as stated: gradient_loss returns the reduction of the per-image sums over
\* adjacent pixel pairs of the SQUARED finite difference of the masked residual, each
\* pair weighted by the product of its mask values, and forward sums it over exactly
\* `scales` resolutions with strides 1, 2, 4, ..., 2^(scales-1).
C11_GradientSquaredDifferences == GradientLossStatement(TRUE)

\* C11 amended: the same with the ABSOLUTE finite difference (torch.abs) in place of
\* the squared one; the masked residual, the mask products, the reduction and the
\* strides 1, 2, 4, ..., 2^(scales-1) over exactly `scales` resolutions are as stated.
C11_GradientAbsoluteDifferences == GradientLossStatement(FALSE)

\* C11 witness: forward over two scales has returned on a batch whose absolute and
\* squared sums differ at full resolution and whose half-resolution term is not the
\* full-resolution one.
C11_Witness ==
    /\ pc = "returned"
    /\ call.fn = "GradientLoss.forward"
    /\ ssi.scales = 2
    /\ frame.steps = <<1, 2>>
    /\ GradientAtStride(1, FALSE) # GradientAtStride(1, TRUE)
    /\ RLess(RZero, GradientAtStride(2, FALSE))
    /\ GradientAtStride(2, FALSE) # GradientAtStride(1, FALSE)
    /\ \E b \in 1..Len(call.mask) : SumImage(call.mask[b]) \in 1..8
    /\ ret.val = RAdd(GradientAtStride(1, FALSE), GradientAtStride(2, FALSE))

(***************************************************************************)
(* Claims about the regions of urban_radiance_field_depth_loss.            *)
(***************************************************************************)
UrfReturned == pc = "returned" /\ call.fn = "urban_radiance_field_depth_loss"

\* sample i of ray r lies within sigma of the depth, before it, or after it
InNear(r, i) ==
    /\ RLeq(RSub(call.termination_depth[r], RInt(call.sigma)), call.steps[r][i])
    /\ RLeq(call.steps[r][i], RAdd(call.termination_depth[r], RInt(call.sigma)))

InEmpty(r, i) ==
    RLess(call.steps[r][i], RSub(call.termination_depth[r], RInt(call.sigma)))

InBeyond(r, i) ==
    RLess(RAdd(call.termination_depth[r], RInt(call.sigma)), call.steps[r][i])

\* the squared deviation of the weight from the Gaussian profile around the depth
GaussianDeviation(r, i) ==
    RSquare(RSub(call.weights[r][i],
                 NormalPdf(RSub(call.steps[r][i], call.termination_depth[r]), call.sigma)))

\* C12: with sigma > 0 every sample is in exactly one of the regions near
\* (depth - sigma <= step <= depth + sigma), empty (step < depth - sigma) and beyond
\* (step > depth + sigma); the near mask and the empty mask are those regions and are
\* never both set; a near sample contributes only the squared deviation of its weight
\* from the Gaussian profile, an empty sample only weight^2, a beyond sample 0, and
\* the line-of-sight term of a ray is the sum of its samples' contributions.
C12_UrfRegions ==
    UrfReturned =>
        \A r \in 1..Len(call.weights) :
            /\ \A i \in 1..Len(call.weights[r]) :
                 /\ Cardinality({R \in {"near", "empty", "beyond"} :
                                   \/ R = "near" /\ InNear(r, i)
                                   \/ R = "empty" /\ InEmpty(r, i)
                                   \/ R = "beyond" /\ InBeyond(r, i)}) = 1
                 /\ (frame.line_of_sight_loss_near_mask[r][i] = 1) <=> InNear(r, i)
                 /\ (frame.line_of_sight_loss_empty_mask[r][i] = 1) <=> InEmpty(r, i)
                 /\ ~(/\ frame.line_of_sight_loss_near_mask[r][i] = 1
                      /\ frame.line_of_sight_loss_empty_mask[r][i] = 1)
                 /\ InNear(r, i) => /\ frame.near_terms[r][i] = GaussianDeviation(r, i)
                                    /\ frame.empty_terms[r][i] = RZero
                 /\ InEmpty(r, i) => /\ frame.near_terms[r][i] = RZero
                                     /\ frame.empty_terms[r][i] =
                                            RSquare(call.weights[r][i])
                 /\ InBeyond(r, i) => /\ frame.near_terms[r][i] = RZero
                                      /\ frame.empty_terms[r][i] = RZero
            /\ frame.line_of_sight_loss[r] =
                   RAdd(RSum(frame.near_terms[r]), RSum(frame.empty_terms[r]))

\* C12 witness: a batch with a weighted sample in each region, one of the near
\* samples exactly on the boundary depth - sigma, and a beyond sample on a valid ray.
C12_Witness ==
    /\ UrfReturned
    /\ \E r \in 1..Len(call.weights) : \E i \in 1..Len(call.weights[r]) :
          /\ InEmpty(r, i)
          /\ RLess(RZero, frame.empty_terms[r][i])
    /\ \E r \in 1..Len(call.weights) : \E i \in 1..Len(call.weights[r]) :
          /\ InNear(r, i)
          /\ call.steps[r][i] = RSub(call.termination_depth[r], RInt(call.sigma))
          /\ RLess(RZero, frame.near_terms[r][i])
    /\ \E r \in 1..Len(call.weights) : \E i \in 1..Len(call.weights[r]) :
          /\ InBeyond(r, i)
          /\ RLess(RZero, call.weights[r][i])
          /\ frame.depth_mask[r] = 1
          /\ frame.near_terms[r][i] = RZero

(***************************************************************************)
(* Claims about the gather indices and the bound of outer.                 *)
(***************************************************************************)
\* the target bins that overlap source bin i: the intersection has positive length
OverlappingBins(i) ==
    {j \in 1..Len(call.y1) :
        /\ call.t1_starts[j] < call.t0_ends[i]
        /\ call.t0_starts[i] < call.t1_ends[j]}

RECURSIVE SumOverBins(_)
SumOverBins(J) ==
    IF J = {} THEN 0
    ELSE LET j == CHOOSE x \in J : TRUE IN call.y1[j] + SumOverBins(J \ {j})

\* the indices of outer are in range and ordered, and its value bounds the overlap
OuterBounds ==
    OuterReturned =>
        \A i \in 1..Len(call.t0_starts) :
            /\ frame.idx_lo[i] \in 0..(Len(call.y1) - 1)
            /\ frame.idx_hi[i] \in 0..(Len(call.y1) - 1)
            /\ frame.idx_lo[i] <= frame.idx_hi[i] + 1
            /\ ret.val[i] >= SumOverBins(OverlappingBins(i))
            /\ ret.val[i] >= 0

LossfunOuterReturned == pc = "returned" /\ call.fn = "lossfun_outer"

====
